---- MODULE Spec2Model ----
(***************************************************************************)
(* Survey Demographic Dashboard (app.py): the load / normalise / redact    *)
(* step, the filter engine, the categorical aggregates and the summary     *)
(* metrics, with the Streamlit rerun loop around them.                     *)
(*                                                                         *)
(* Text is a sequence of characters.  A character is a one-element piece   *)
(* of text: the whitespace characters " ", LF (\n) and NBSP (\xa0), the    *)
(* delimiter ";", or an opaque run of non-whitespace characters such as    *)
(* "a" or "nan" that no operation of the program looks inside.             *)
(*                                                                         *)
(* A cell is a record [kind, val]: kind "str" (a Python str, val its       *)
(* text), "nan" (the float NaN read_excel gives an empty cell), "NA"       *)
(* (pandas.NA) or "num" (a number, val its decimal text).                  *)
(* A series is [dtype, cells]; a data frame is a sequence of columns       *)
(* [name, dtype, cells].  As the code expects (series.dtype != object), a  *)
(* column of text has the dtype object and an empty cell in it is NaN.     *)
(***************************************************************************)
EXTENDS Integers, Sequences, FiniteSets, TLC

VARIABLES
    raw,         \* the table read_excel returns for SURVEY_FILE
    exists,      \* SURVEY_FILE.exists()
    norm,        \* the table after the normalisation steps of load_data
    canon,       \* what load_data returned / what st.cache_data holds for it
    again,       \* the normalisation steps applied to norm
    loads,       \* how many times the body of load_data has returned a dataset
    selections,  \* column -> selected values (the multiselect widgets)
    order,       \* the order in which the selection's columns are processed
    filtered,    \* what apply_filters returned: [index, df]
    out,         \* what the aggregate or summary function called last returned
    pc

vars == <<raw, exists, norm, canon, again, loads, selections, order, filtered, out, pc>>

\* ------------------------------------------------------------------ bounds
MaxLen == 3
MaxCols == 2
MaxRows == 3

\* ------------------------------------------------------------------ text
LF == "\n"
NBSP == "NBSP"

\* str.isspace() of the characters of the model ("\xa0".isspace() is True)
IsSpace(c) == c \in {" ", LF, NBSP}

\* str.replace(old, new) for one-character old and new
StrReplace(s, old, new) == [i \in 1..Len(s) |-> IF s[i] = old THEN new ELSE s[i]]

RECURSIVE LStrip(_)
LStrip(s) == IF s # <<>> /\ IsSpace(Head(s)) THEN LStrip(Tail(s)) ELSE s

RECURSIVE RStrip(_)
RStrip(s) ==
    IF s # <<>> /\ IsSpace(s[Len(s)]) THEN RStrip(SubSeq(s, 1, Len(s) - 1)) ELSE s

\* str.strip()
Strip(s) == RStrip(LStrip(s))

\* ------------------------------------------------------------------ cells
Str(s) == [kind |-> "str", val |-> s]
NaN == [kind |-> "nan", val |-> <<>>]
NA == [kind |-> "NA", val |-> <<>>]
Num(d) == [kind |-> "num", val |-> <<d>>]

\* Series.dropna() / isna(): NaN and pandas.NA are the missing values
IsMissing(c) == c.kind \in {"nan", "NA"}

\* Series.astype(str) on one cell: str(x) of every value, the missing ones
\* included: str(float("nan")) is "nan", str(pandas.NA) is "<NA>"
astype_str(c) ==
    CASE c.kind = "str" -> c.val
      [] c.kind = "nan" -> <<"nan">>
      [] c.kind = "NA" -> <<"<NA>">>
      [] c.kind = "num" -> c.val

\* clean_cell with the "\xa0" replacement left out and only spaces stripped
clean_cell_no_nbsp(c) ==
    LET t == StrReplace(astype_str(c), LF, " ")
        IsBlank(x) == x = " "
        RECURSIVE L(_), R(_)
        L(x) == IF x # <<>> /\ IsBlank(Head(x)) THEN L(Tail(x)) ELSE x
        R(x) == IF x # <<>> /\ IsBlank(x[Len(x)]) THEN R(SubSeq(x, 1, Len(x) - 1)) ELSE x
        s == R(L(t))
    IN  IF s = <<"nan">> \/ s = <<>> THEN NA ELSE Str(s)

\* clean_string_series on one cell of an object column
clean_cell(c) ==
    LET s == Strip(StrReplace(StrReplace(astype_str(c), LF, " "), NBSP, " "))
    IN  IF s = <<"nan">> \/ s = <<>> THEN NA ELSE Str(s)

clean_string_series(series) ==
    IF series.dtype # "object"
    THEN series
    ELSE [series EXCEPT !.cells = [i \in 1..Len(series.cells) |-> clean_cell(series.cells[i])]]

\* ------------------------------------------------------------------ configuration
RENAME_MAP ==
    { [old |-> <<"Start time">>, new |-> <<"Start Time">>],
      [old |-> <<"Completion time">>, new |-> <<"Completion Time">>],
      [old |-> <<"Email Address">>, new |-> <<"Secondary Email">>],
      [old |-> <<"What is your Educational Background", LF>>,
       new |-> <<"Educational Background">>],
      [old |-> <<"What is your current church affiliation", NBSP>>,
       new |-> <<"Church Affiliation">>],
      [old |-> <<"How frequently do you attend church?", LF>>,
       new |-> <<"Attendance Frequency">>],
      [old |-> <<"How do you attend church">>, new |-> <<"Attendance Mode">>],
      [old |-> <<"How much time do you spend per day on media (Social Media, Streaming Platforms, etc)">>,
       new |-> <<"Daily Media Time">>],
      [old |-> <<"Which platforms do you use?">>, new |-> <<"Media Platforms">>],
      [old |-> <<"My engagement with media has made my faith:">>,
       new |-> <<"Media Impact on Faith">>],
      [old |-> <<"How regular are you with personal devotion (Bible Reading/Prayer)">>,
       new |-> <<"Personal Devotion Regularity">>],
      [old |-> <<"In what way do you contribute to your church (select all that apply)">>,
       new |-> <<"Church Contribution">>] }

SENSITIVE_COLUMNS ==
    { <<"Email">>, <<"Name">>, <<"First Name">>, <<"Last Name">>,
      <<"Secondary Email">>, <<"Phone Number">> }

\* ------------------------------------------------------------------ load_data
\* df.rename(columns=RENAME_MAP) on one header: exact match of the whole header
rename(h) ==
    IF \E e \in RENAME_MAP : e.old = h
    THEN (CHOOSE e \in RENAME_MAP : e.old = h).new
    ELSE h

Columns(df) == {df[i].name : i \in 1..Len(df)}

HasDuplicateColumns(df) == \E i, j \in 1..Len(df) : i # j /\ df[i].name = df[j].name

\* df.rename(columns=RENAME_MAP); df.columns = [col.strip() for col in df.columns]
rename_columns(df) == [i \in 1..Len(df) |-> [df[i] EXCEPT !.name = Strip(rename(df[i].name))]]

\* for column in df.columns: df[column] = clean_string_series(df[column])
clean_columns(df) ==
    [i \in 1..Len(df) |->
        LET s == clean_string_series([dtype |-> df[i].dtype, cells |-> df[i].cells])
        IN  [name |-> df[i].name, dtype |-> s.dtype, cells |-> s.cells]]

\* the normalisation steps of load_data: the headers, then every column
normalize(df) == clean_columns(rename_columns(df))

RECURSIVE DropWhere(_, _)
DropWhere(df, names) ==
    IF df = <<>> THEN <<>>
    ELSE IF Head(df).name \in names
         THEN DropWhere(Tail(df), names)
         ELSE <<Head(df)>> \o DropWhere(Tail(df), names)

\* drop_cols = [col for col in SENSITIVE_COLUMNS if col in df.columns]; df.drop(...)
drop_sensitive(df) ==
    LET drop_cols == {col \in SENSITIVE_COLUMNS : col \in Columns(df)}
    IN  IF drop_cols # {} THEN DropWhere(df, drop_cols) ELSE df

\* load_data with the sensitive columns dropped before the headers are renamed
load_table_drop_first(table) ==
    IF HasDuplicateColumns(rename_columns(table))
    THEN [status |-> "error", df |-> <<>>]
    ELSE [status |-> "ok", df |-> normalize(drop_sensitive(table))]

\* load_data on the table read_excel returns.  Two columns that get the same name
\* make df[column] a DataFrame, which has no dtype: the loop raises.
load_table(table) ==
    IF HasDuplicateColumns(rename_columns(table))
    THEN [status |-> "error", df |-> <<>>]
    ELSE [status |-> "ok", df |-> drop_sensitive(normalize(table))]

\* ------------------------------------------------------------------ apply_filters
FILTER_COLUMNS ==
    << <<"Age Range">>, <<"Sex">>, <<"Ethnicity">>, <<"Educational Background">>,
       <<"Marital Status">>, <<"Church Affiliation">> >>

NRows(df) == IF df = <<>> THEN 0 ELSE Len(df[1].cells)

\* df[column]
Column(df, column) == df[CHOOSE i \in 1..Len(df) : df[i].name = column]

\* the rows of df at the positions idx, in that order
TakeRows(df, idx) ==
    [i \in 1..Len(df) |-> [df[i] EXCEPT !.cells = [k \in 1..Len(idx) |-> df[i].cells[idx[k]]]]]

\* main: the columns of FILTER_COLUMNS that data has, in that order
RECURSIVE PresentColumns(_, _)
PresentColumns(cols, df) ==
    IF cols = <<>> THEN <<>>
    ELSE (IF Head(cols) \in Columns(df) THEN <<Head(cols)>> ELSE <<>>)
         \o PresentColumns(Tail(cols), df)

\* main: options = sorted(data[column].dropna().unique()), as a set
Options(df, column) ==
    LET cells == Column(df, column).cells
    IN  {cells[k] : k \in {k \in 1..Len(cells) : ~IsMissing(cells[k])}}

\* main: options_map, one entry for each filter column of data
OptionsMap(df) ==
    LET present == PresentColumns(FILTER_COLUMNS, df)
    IN  [c \in {present[i] : i \in 1..Len(present)} |-> Options(df, c)]

\* options_map.get(column, [])
Available(options_map, column) ==
    IF column \in DOMAIN options_map THEN options_map[column] ELSE {}

\* apply_filters whose mask is taken on data, not on the rows filtered so far
RECURSIVE apply_filters_last_wins(_, _, _, _, _)
apply_filters_last_wins(data, keep, cols, selected, options_map) ==
    IF cols = <<>> THEN keep
    ELSE LET column == Head(cols)
             Test(k) == Column(data, column).cells[k] \in selected[column]
         IN  IF selected[column] = {}
             THEN apply_filters_last_wins(data, keep, Tail(cols), selected, options_map)
             ELSE IF selected[column] = Available(options_map, column)
             THEN apply_filters_last_wins(data, keep, Tail(cols), selected, options_map)
             ELSE apply_filters_last_wins(
                      data, SelectSeq([k \in 1..NRows(data) |-> k], Test),
                      Tail(cols), selected, options_map)

\* apply_filters with an empty selection filtering like any other
RECURSIVE apply_filters_empty_excludes(_, _, _, _, _)
apply_filters_empty_excludes(data, keep, cols, selected, options_map) ==
    IF cols = <<>> THEN keep
    ELSE LET column == Head(cols)
             Test(k) == Column(data, column).cells[k] \in selected[column]
         IN  IF selected[column] = Available(options_map, column) /\ selected[column] # {}
             THEN apply_filters_empty_excludes(data, keep, Tail(cols), selected, options_map)
             ELSE apply_filters_empty_excludes(
                      data, SelectSeq(keep, Test), Tail(cols), selected, options_map)

\* apply_filters with the "all options selected" test left out
RECURSIVE apply_filters_no_skip(_, _, _, _, _)
apply_filters_no_skip(data, keep, cols, selected, options_map) ==
    IF cols = <<>> THEN keep
    ELSE LET column == Head(cols)
             Test(k) == Column(data, column).cells[k] \in selected[column]
         IN  IF selected[column] = {}
             THEN apply_filters_no_skip(data, keep, Tail(cols), selected, options_map)
             ELSE apply_filters_no_skip(
                      data, SelectSeq(keep, Test), Tail(cols), selected, options_map)

\* the loop of apply_filters: keep is the index of filtered, cols the columns of
\* selections still to process.  filtered[column].isin(selected) is the mask.
RECURSIVE filter_loop(_, _, _, _, _)
filter_loop(data, keep, cols, selected, options_map) ==
    IF cols = <<>> THEN keep
    ELSE LET column == Head(cols)
             Test(k) == Column(data, column).cells[k] \in selected[column]
         IN  IF selected[column] = {}
             THEN filter_loop(data, keep, Tail(cols), selected, options_map)
             ELSE IF selected[column] = Available(options_map, column)
             THEN filter_loop(data, keep, Tail(cols), selected, options_map)
             ELSE filter_loop(data, SelectSeq(keep, Test), Tail(cols), selected, options_map)

\* apply_filters(data, selections, options_map); cols is the order of selections
apply_filters(data, cols, selected, options_map) ==
    LET keep == filter_loop(data, [k \in 1..NRows(data) |-> k], cols, selected, options_map)
    IN  [index |-> keep, df |-> TakeRows(data, keep)]

\* ------------------------------------------------------------------ aggregates
\* Series.dropna()
dropna(cells) == LET Present(c) == ~IsMissing(c) IN SelectSeq(cells, Present)

\* Series.replace("", pd.NA)
replace_empty(cells) ==
    [k \in 1..Len(cells) |-> IF cells[k] = Str(<<>>) THEN NA ELSE cells[k]]

\* the distinct values of cells, in the order they are first seen
RECURSIVE Uniques(_, _)
Uniques(cells, seen) ==
    IF cells = <<>> THEN <<>>
    ELSE IF Head(cells) \in seen
         THEN Uniques(Tail(cells), seen)
         ELSE <<Head(cells)>> \o Uniques(Tail(cells), seen \cup {Head(cells)})

Occurrences(cells, v) == Cardinality({k \in 1..Len(cells) : cells[k] = v})

\* insert e into the table t, sorted by Responses descending, after its equals
RECURSIVE InsertByCount(_, _)
InsertByCount(t, e) ==
    IF t = <<>> THEN <<e>>
    ELSE IF Head(t).Responses >= e.Responses
         THEN <<Head(t)>> \o InsertByCount(Tail(t), e)
         ELSE <<e>> \o t

RECURSIVE SortByCount(_)
SortByCount(t) ==
    IF t = <<>> THEN <<>>
    ELSE InsertByCount(SortByCount(SubSeq(t, 1, Len(t) - 1)), t[Len(t)])

\* the counting of value_counts: one entry for each distinct non-missing value, in
\* first-seen order
count_values(cells) ==
    LET present == dropna(cells)
        u == Uniques(present, {})
    IN  [i \in 1..Len(u) |-> [Category |-> u[i], Responses |-> Occurrences(present, u[i])]]

\* value_counts with the sort left out (sort=False)
value_counts_unsorted(cells) == count_values(cells)

\* Series.value_counts(): one entry for each distinct non-missing value, the most
\* frequent first, equal counts in first-seen order
value_counts(cells) == SortByCount(count_values(cells))

\* the counts with the missing values counted as a category (dropna=False)
single_counts_keep_missing(cells) ==
    LET u == Uniques(cells, {})
    IN  SortByCount([i \in 1..Len(u) |->
            [Category |-> u[i], Responses |-> Occurrences(cells, u[i])]])

\* data.dropna().replace("", pd.NA).dropna().value_counts()
single_counts(cells) == value_counts(dropna(replace_empty(dropna(cells))))

\* str.split(sep): the pieces of s between the separators
RECURSIVE Split(_, _)
Split(s, sep) ==
    IF \A k \in 1..Len(s) : s[k] # sep THEN <<s>>
    ELSE LET k == CHOOSE k \in 1..Len(s) : s[k] = sep /\ \A j \in 1..(k - 1) : s[j] # sep
         IN  <<SubSeq(s, 1, k - 1)>> \o Split(SubSeq(s, k + 1, Len(s)), sep)

\* .str.split(";").explode(): one row for every piece of every cell
RECURSIVE explode(_)
explode(cells) ==
    IF cells = <<>> THEN <<>>
    ELSE LET pieces == Split(Head(cells).val, ";")
         IN  [i \in 1..Len(pieces) |-> Str(pieces[i])] \o explode(Tail(cells))

\* .str.strip() on a series of texts
strip_all(cells) == [k \in 1..Len(cells) |-> Str(Strip(cells[k].val))]

\* the token pool with the tokens left unstripped
exploded_no_strip(cells) == dropna(replace_empty(explode(dropna(cells))))

\* data.dropna().str.split(";").explode().str.strip().replace("", pd.NA).dropna()
exploded(cells) == dropna(replace_empty(strip_all(explode(dropna(cells)))))

\* single_select_chart: the table handed to the chart, or the "no data" message
single_select_chart(cells) ==
    LET counts == single_counts(cells)
    IN  [fn |-> "single_select_chart", nodata |-> counts = <<>>, table |-> counts,
         text |-> <<>>]

RECURSIVE SumResponses(_)
SumResponses(t) == IF t = <<>> THEN 0 ELSE Head(t).Responses + SumResponses(Tail(t))

\* single_select_pie_chart: the same table with Percent = Responses / sum, kept as
\* the pair <<Responses, sum>>
single_select_pie_chart(cells) ==
    LET counts == single_counts(cells)
    IN  [fn |-> "single_select_pie_chart", nodata |-> counts = <<>>,
         table |-> [i \in 1..Len(counts) |->
                      [Category |-> counts[i].Category, Responses |-> counts[i].Responses,
                       Percent |-> <<counts[i].Responses, SumResponses(counts)>>]],
         text |-> <<>>]

multivalue_chart(cells) ==
    LET pool == exploded(cells)
    IN  [fn |-> "multivalue_chart", nodata |-> pool = <<>>,
         table |-> IF pool = <<>> THEN <<>> ELSE value_counts(pool), text |-> <<>>]

Digits == <<"0", "1", "2", "3", "4", "5", "6", "7", "8", "9">>

\* str(n) of a count
RECURSIVE Decimal(_)
Decimal(n) == IF n < 10 THEN <<Digits[n + 1]>> ELSE Decimal(n \div 10) \o <<Digits[(n % 10) + 1]>>

\* f"{top_label} ({top_count})"
Headline(counts) ==
    astype_str(counts[1].Category) \o <<" ", "(">> \o Decimal(counts[1].Responses) \o <<")">>

summarize_category(cells) ==
    LET counts == single_counts(cells)
    IN  [fn |-> "summarize_category", nodata |-> counts = <<>>, table |-> <<>>,
         text |-> IF counts = <<>> THEN <<"N/A">> ELSE Headline(counts)]

summarize_multivalue(cells) ==
    LET pool == exploded(cells)
    IN  [fn |-> "summarize_multivalue", nodata |-> pool = <<>>, table |-> <<>>,
         text |-> IF pool = <<>> THEN <<"N/A">> ELSE Headline(value_counts(pool))]

\* ------------------------------------------------------------------ load_data, cached
\* load_data with the st.cache_data decorator left out: the body runs on every call
load_data_uncached(cache, file_exists, table) ==
    IF ~file_exists
    THEN [status |-> "stop", df |-> <<>>, returned |-> FALSE]
    ELSE LET r == load_table(table)
         IN  [status |-> r.status, df |-> r.df, returned |-> r.status = "ok"]

\* load_data(SURVEY_FILE) under @st.cache_data: the key is the argument, the path, so
\* a value once returned for it is returned again without running the body.  A run
\* that ends in st.stop() or in an exception stores nothing.  returned: the body ran
\* and returned a dataset.
load_data(cache, file_exists, table) ==
    IF cache.status = "ok"
    THEN [status |-> "ok", df |-> cache.df, returned |-> FALSE]
    ELSE IF ~file_exists
    THEN [status |-> "stop", df |-> <<>>, returned |-> FALSE]
    ELSE LET r == load_table(table)
         IN  [status |-> r.status, df |-> r.df, returned |-> r.status = "ok"]

\* ------------------------------------------------------------------ inputs
Alphabet == {"a", "nan", " ", LF, NBSP}

RECURSIVE TextsOfLen(_, _)
TextsOfLen(A, n) ==
    IF n = 0 THEN {<<>>}
    ELSE {<<c>> \o t : c \in A, t \in TextsOfLen(A, n - 1)}

Texts(A, n) == UNION {TextsOfLen(A, k) : k \in 0..n}

\* what read_excel puts in a cell of a text column
RawTextCells == {NaN} \cup {Str(t) : t \in Texts(Alphabet, MaxLen) \ {<<>>}}

RawHeaders ==
    { <<"Email">>, <<"Email Address">>, <<" ", "Email Address">>, <<"Name", " ">>,
      <<"Secondary Email">>, <<"Phone Number">>, <<"Start time">>, <<"Start time", " ">>,
      <<"Age Range">>, <<"Which platforms do you use?">> }

SampleCells == {NaN, Str(<<"a", LF>>), Str(<<" ">>)}

RECURSIVE DistinctSeqs(_, _)
DistinctSeqs(S, n) ==
    IF n = 0 THEN {<<>>}
    ELSE {<<h>> \o t : h \in S, t \in DistinctSeqs(S, n - 1)}

\* read_excel never returns two columns of one name
HeaderLists ==
    {hs \in UNION {DistinctSeqs(RawHeaders, n) : n \in 1..MaxCols} :
        \A i, j \in 1..Len(hs) : i # j => hs[i] # hs[j]}

HeaderTables ==
    UNION { { [i \in 1..Len(hs) |-> [name |-> hs[i], dtype |-> "object", cells |-> <<cs[i]>>]]
              : cs \in [1..Len(hs) -> SampleCells] } : hs \in HeaderLists }

CellTables ==
    { << [name |-> <<"Age Range">>, dtype |-> "object", cells |-> <<c>>] >>
        : c \in RawTextCells \cup {Num("1")} }
    \cup
    { << [name |-> <<"Score", " ">>, dtype |-> "float64", cells |-> <<c, d>>] >>
        : c \in {NaN, Num("1")}, d \in {NaN, Num("2")} }

RawTables == HeaderTables \cup CellTables

\* the survey answers the filter is tried on: two filter columns (the second under
\* its raw header), every cell an answer or empty
AgeCells == {NaN, Str(<<"18-24">>), Str(<<"25-34">>)}
EduCells == {NaN, Str(<<"BSc">>), Str(<<"MSc">>)}

FilterTable(ages, edus) ==
    << [name |-> <<"Age Range">>, dtype |-> "object", cells |-> ages],
       [name |-> <<"What is your Educational Background", LF>>, dtype |-> "object",
        cells |-> edus] >>

\* the example of the specification: Age Range 18-24, 25-34, 18-24, missing, 25-34
ExampleAges ==
    << [name |-> <<"Age Range">>, dtype |-> "object",
        cells |-> << Str(<<"18-24">>), Str(<<"25-34">>), Str(<<"18-24">>), NaN,
                     Str(<<"25-34">>) >>] >>

FilterRawTables ==
    {ExampleAges} \cup
    UNION { {FilterTable(a, e) : a \in [1..n -> AgeCells], e \in [1..n -> EduCells]}
            : n \in 1..MaxRows }

Range(f) == {f[i] : i \in DOMAIN f}

\* the orders a dict with the keys S can have
Orders(S) ==
    {o \in DistinctSeqs(S, Cardinality(S)) : Range(o) = S}

\* the answers the aggregates are tried on, in the multi-valued column "Media
\* Platforms" (read under its raw header)
AggAlphabet == {"a", "b", ";", " "}

SampleAnswers ==
    { NaN, Str(<<"a">>), Str(<<"b">>), Str(<<"a", ";", " ", "b">>), Str(<<"b", ";", "a">>),
      Str(<<" ", ";", " ">>), Str(<<"c", ";", "b", " ", ";">>) }

MediaTable(cells) ==
    << [name |-> <<"Which platforms do you use?">>, dtype |-> "object", cells |-> cells] >>

\* the example of the specification
ExampleMedia ==
    MediaTable(<< Str(<<"Instagram", ";", " ", "YouTube">>), Str(<<"YouTube">>), NaN,
                  Str(<<"Instagram">>), Str(<<"TikTok", ";", " ", "YouTube">>) >>)

AggRawTables ==
    {ExampleMedia}
    \cup {MediaTable(<<Str(t)>>) : t \in Texts(AggAlphabet, MaxLen) \ {<<>>}}
    \cup UNION { {MediaTable(cs) : cs \in [1..n -> SampleAnswers]} : n \in 0..MaxRows }

\* the files the dashboard is run on: an Email column and an Age Range column of
\* two answers, or a file whose headers collide after the rename
AppTable(ages) ==
    << [name |-> <<"Email">>, dtype |-> "object",
        cells |-> <<Str(<<"x@y">>), Str(<<"z@y">>)>>],
       [name |-> <<"Age Range">>, dtype |-> "object", cells |-> ages] >>

CollidingTable ==
    << [name |-> <<"Email Address">>, dtype |-> "object", cells |-> <<NaN>>],
       [name |-> <<"Secondary Email">>, dtype |-> "object", cells |-> <<NaN>>] >>

AppTables ==
    {CollidingTable} \cup {AppTable(<<a, b>>) : a \in AgeCells, b \in AgeCells}

\* ------------------------------------------------------------------ SpecLoad
NoResult == [status |-> "none", df |-> <<>>]
NoFiltered == [index |-> <<>>, df |-> <<>>]
NoOut == [fn |-> "none", nodata |-> FALSE, table |-> <<>>, text |-> <<>>]

InitLoad ==
    /\ raw \in RawTables
    /\ exists = TRUE
    /\ norm = <<>>
    /\ canon = NoResult
    /\ again = <<>>
    /\ loads = 0
    /\ selections = <<>>
    /\ order = <<>>
    /\ filtered = NoFiltered
    /\ out = NoOut
    /\ pc = "start"

\* load_data(path) on an existing file
LoadData ==
    /\ pc = "start"
    /\ exists
    /\ canon' = load_table(raw)
    /\ norm' = IF canon'.status = "ok" THEN normalize(raw) ELSE <<>>
    /\ loads' = IF canon'.status = "ok" THEN loads + 1 ELSE loads
    /\ pc' = "loaded"
    /\ UNCHANGED <<raw, exists, again, selections, order, filtered, out>>

\* the normalisation steps applied to the normalised table once more
Renormalize ==
    /\ pc = "loaded"
    /\ canon.status = "ok"
    /\ again' = normalize(norm)
    /\ pc' = "renormalized"
    /\ UNCHANGED <<raw, exists, norm, canon, loads, selections, order, filtered, out>>

NextLoad == LoadData \/ Renormalize

SpecLoad == InitLoad /\ [][NextLoad]_vars

\* ------------------------------------------------------------------ SpecFilter
InitFilter ==
    /\ raw \in FilterRawTables
    /\ exists = TRUE
    /\ norm = <<>>
    /\ canon = NoResult
    /\ again = <<>>
    /\ loads = 0
    /\ selections = <<>>
    /\ order = <<>>
    /\ filtered = NoFiltered
    /\ out = NoOut
    /\ pc = "start"

\* apply_filters(data, selections, options_map) with options_map as main builds it
\* and a selection the multiselect widgets can return
ApplyFilters ==
    /\ pc = "loaded"
    /\ canon.status = "ok"
    /\ LET options_map == OptionsMap(canon.df)
       IN  \E sel \in [DOMAIN options_map -> SUBSET UNION Range(options_map)] :
           \E cols \in Orders(DOMAIN options_map) :
               /\ \A c \in DOMAIN options_map : sel[c] \subseteq options_map[c]
               /\ selections' = sel
               /\ order' = cols
               /\ filtered' = apply_filters(canon.df, cols, sel, options_map)
    /\ pc' = "filtered"
    /\ UNCHANGED <<raw, exists, norm, canon, again, loads, out>>

NextFilter == LoadData \/ ApplyFilters

SpecFilter == InitFilter /\ [][NextFilter]_vars

\* ------------------------------------------------------------------ SpecAgg
InitAgg ==
    /\ raw \in AggRawTables
    /\ exists = TRUE
    /\ norm = <<>>
    /\ canon = NoResult
    /\ again = <<>>
    /\ loads = 0
    /\ selections = <<>>
    /\ order = <<>>
    /\ filtered = NoFiltered
    /\ out = NoOut
    /\ pc = "start"

\* the column the aggregate functions are called on
Series == canon.df[1].cells

Aggregate(result) ==
    /\ pc = "loaded"
    /\ canon.status = "ok"
    /\ out' = result
    /\ pc' = "done"
    /\ UNCHANGED <<raw, exists, norm, canon, again, loads, selections, order, filtered>>

SummarizeCategory == Aggregate(summarize_category(Series))
SummarizeMultivalue == Aggregate(summarize_multivalue(Series))
SingleSelectChart == Aggregate(single_select_chart(Series))
SingleSelectPieChart == Aggregate(single_select_pie_chart(Series))
MultivalueChart == Aggregate(multivalue_chart(Series))

NextAgg ==
    \/ LoadData
    \/ SummarizeCategory
    \/ SummarizeMultivalue
    \/ SingleSelectChart
    \/ SingleSelectPieChart
    \/ MultivalueChart

SpecAgg == InitAgg /\ [][NextAgg]_vars

\* ------------------------------------------------------------------ SpecApp
InitApp ==
    /\ raw \in AppTables
    /\ exists \in BOOLEAN
    /\ norm = <<>>
    /\ canon = NoResult
    /\ again = <<>>
    /\ loads = 0
    /\ selections = <<>>
    /\ order = <<>>
    /\ filtered = NoFiltered
    /\ out = NoOut
    /\ pc = "start"

\* filtered.get("Age Range", pd.Series(dtype=object))
GetAgeRange(df) ==
    IF <<"Age Range">> \in Columns(df) THEN Column(df, <<"Age Range">>).cells ELSE <<>>

\* one run of the script (main): load_data through the cache, the multiselect
\* widgets, apply_filters and the "Top Age Range" metric.  A widget shown for the
\* first time returns its default, all the options; later it returns what the user
\* has selected.
Run ==
    LET data == load_data(canon, exists, raw)
    IN  /\ canon' = IF data.status = "ok" THEN [status |-> "ok", df |-> data.df] ELSE NoResult
        /\ loads' = IF data.returned THEN loads + 1 ELSE loads
        /\ IF data.status = "ok"
           THEN LET options_map == OptionsMap(data.df)
                    cols == PresentColumns(FILTER_COLUMNS, data.df)
                IN  /\ \E sel \in [DOMAIN options_map -> SUBSET UNION Range(options_map)] :
                           /\ \A c \in DOMAIN options_map : sel[c] \subseteq options_map[c]
                           /\ pc # "page" => sel = options_map
                           /\ selections' = sel
                           /\ filtered' = apply_filters(data.df, cols, sel, options_map)
                    /\ order' = cols
                    /\ out' = summarize_category(GetAgeRange(filtered'.df))
                    /\ pc' = "page"
           ELSE /\ selections' = <<>>
                /\ order' = <<>>
                /\ filtered' = NoFiltered
                /\ out' = NoOut
                /\ pc' = IF data.status = "stop" THEN "stopped" ELSE "crashed"
        /\ UNCHANGED <<raw, exists, norm, again>>

\* the survey file is written: other contents, a new modification time
WriteFile ==
    /\ \E t \in AppTables : (t # raw \/ ~exists) /\ raw' = t
    /\ exists' = TRUE
    /\ UNCHANGED <<norm, canon, again, loads, selections, order, filtered, out, pc>>

DeleteFile ==
    /\ exists
    /\ exists' = FALSE
    /\ UNCHANGED <<raw, norm, canon, again, loads, selections, order, filtered, out, pc>>

NextApp == Run \/ WriteFile \/ DeleteFile

SpecApp == InitApp /\ [][NextApp]_vars

\* ------------------------------------------------------------------ claims on load_data
Loaded == pc # "start" /\ canon.status = "ok"

\* the column of the input table that became column i of the loaded dataset
SourceOf(col) == CHOOSE j \in 1..Len(raw) : Strip(rename(raw[j].name)) = col.name

\* C4: the dataset load_data returns has no column whose name, after the rename
\* through RENAME_MAP and the strip, is in SENSITIVE_COLUMNS; its columns are exactly
\* the other columns of the normalised table, and a table with no sensitive column
\* loads unchanged by the redaction.
C4_Redaction ==
    Loaded =>
        /\ \A i \in 1..Len(canon.df) : canon.df[i].name \notin SENSITIVE_COLUMNS
        /\ Columns(canon.df) = Columns(norm) \ SENSITIVE_COLUMNS
        /\ Columns(canon.df) =
              {Strip(rename(raw[j].name)) : j \in 1..Len(raw)} \ SENSITIVE_COLUMNS
        /\ (Columns(norm) \cap SENSITIVE_COLUMNS = {} => canon.df = norm)

\* a table with an "Email Address" column (renamed to "Secondary Email") and another
\* column has been loaded, and only the other column is left
C4_Witness ==
    /\ Loaded
    /\ Len(raw) = 2
    /\ \E j \in 1..Len(raw) : raw[j].name = <<"Email Address">>
    /\ Len(canon.df) = 1

\* C5 (as claimed): the normalisation steps applied to a normalised table give the
\* same table.
C5_Idempotent == pc = "renormalized" => again = norm

\* C5 (as claimed), the cells alone: a cell the first pass made the missing sentinel
\* is still the missing sentinel after the second pass.
C5_MissingStaysMissing ==
    pc = "renormalized" =>
        \A i \in 1..Len(norm) : \A k \in 1..Len(norm[i].cells) :
            norm[i].cells[k] = NA => again[i].cells[k] = NA

IsCleanText(c) ==
    /\ c.kind = "str"
    /\ c.val # <<>>
    /\ ~IsSpace(c.val[1])
    /\ ~IsSpace(c.val[Len(c.val)])
    /\ \A k \in 1..Len(c.val) : c.val[k] \notin {LF, NBSP}
    /\ c.val # <<"nan">>

Filtered == pc = "filtered"

AllRows(df) == [k \in 1..NRows(df) |-> k]

CellAt(df, column, k) == Column(df, column).cells[k]

IsFull(c) == selections[c] = Options(canon.df, c)

C2_NoOp ==
    (Filtered /\ \A c \in DOMAIN selections : IsFull(c)) =>
        /\ filtered.index = AllRows(canon.df)
        /\ filtered.df = canon.df

\* everything is selected, and a row with no Age Range is among the rows returned
C2_Witness ==
    /\ Filtered
    /\ \A c \in DOMAIN selections : IsFull(c) /\ selections[c] # {}
    /\ \E k \in 1..Len(filtered.index) :
           IsMissing(CellAt(filtered.df, <<"Age Range">>, k))

\* C3: when every selected set is non-empty, apply_filters returns exactly the rows
\* whose value is in the selected set for every column whose selected set is not the
\* full option set; a row with a missing value on such a column is not returned; the
\* order the columns are processed in does not matter; and Age Range 18-24, 25-34,
\* 18-24, missing, 25-34 with {18-24} selected gives the two rows with 18-24.
C3_Membership ==
    (Filtered /\ \A c \in DOMAIN selections : selections[c] # {}) =>
        LET Match(k) ==
                \A c \in DOMAIN selections :
                    ~IsFull(c) => CellAt(canon.df, c, k) \in selections[c]
        IN  /\ filtered.index = SelectSeq(AllRows(canon.df), Match)
            /\ filtered.df = TakeRows(canon.df, filtered.index)
            /\ \A k \in Range(filtered.index) : \A c \in DOMAIN selections :
                   ~IsFull(c) => ~IsMissing(CellAt(canon.df, c, k))
            /\ \A cols \in Orders(DOMAIN selections) :
                   apply_filters(canon.df, cols, selections, OptionsMap(canon.df)) = filtered
            /\ (raw = ExampleAges /\ selections[<<"Age Range">>] = {Str(<<"18-24">>)}) =>
                   filtered.index = <<1, 3>>

\* both columns are filtered, the second column first, and a row that has the age
\* selected is left out for the other column
C3_Witness ==
    /\ Filtered
    /\ Cardinality(DOMAIN selections) = 2
    /\ \A c \in DOMAIN selections : selections[c] # {} /\ ~IsFull(c)
    /\ order[1] = <<"Educational Background">>
    /\ Len(filtered.index) > 0
    /\ \E k \in 1..NRows(canon.df) :
           /\ CellAt(canon.df, <<"Age Range">>, k) \in selections[<<"Age Range">>]
           /\ k \notin Range(filtered.index)

\* ------------------------------------------------------------------ claims on the aggregates
Done(fns) == pc = "done" /\ out.fn \in fns

RECURSIVE SumOver(_, _)
SumOver(F(_), S) ==
    IF S = {} THEN 0 ELSE LET x == CHOOSE x \in S : TRUE IN F(x) + SumOver(F, S \ {x})

\* the tokens of the text s: the stretches between two ";" (or an end of s), as
\* pairs <<first, last>> of positions
TokenSpans(s) ==
    {sp \in (1..(Len(s) + 1)) \X (0..Len(s)) :
        /\ sp[2] >= sp[1] - 1
        /\ (sp[1] = 1 \/ s[sp[1] - 1] = ";")
        /\ (sp[2] = Len(s) \/ s[sp[2] + 1] = ";")
        /\ \A k \in sp[1]..sp[2] : s[k] # ";"}

TokenAt(s, sp) == Strip(SubSeq(s, sp[1], sp[2]))

PresentRows == {k \in 1..Len(Series) : ~IsMissing(Series[k])}

\* how many tokens of the column are the text t
TokenCount(t) ==
    LET InRow(k) == Cardinality({sp \in TokenSpans(Series[k].val) : TokenAt(Series[k].val, sp) = t})
    IN  SumOver(InRow, PresentRows)

AllTokens ==
    UNION {{TokenAt(Series[k].val, sp) : sp \in TokenSpans(Series[k].val)} : k \in PresentRows}

RowsWithToken ==
    {k \in PresentRows : \E sp \in TokenSpans(Series[k].val) : TokenAt(Series[k].val, sp) # <<>>}

Categories(t) == {t[i].Category : i \in 1..Len(t)}

\* C7: the count multivalue_chart reports for a category is the number of tokens equal
\* to it, the tokens being the pieces of the non-missing cells between ";", trimmed;
\* the categories are the non-empty tokens, each once; the counts add up to at least
\* the number of rows with a non-empty token; with no non-empty token the outcome is
\* "no data"; and the example gives YouTube 3, Instagram 2, TikTok 1.
C7_MultiValued ==
    Done({"multivalue_chart"}) =>
        /\ Categories(out.table) = {Str(t) : t \in AllTokens \ {<<>>}}
        /\ Len(out.table) = Cardinality(Categories(out.table))
        /\ \A i \in 1..Len(out.table) :
               out.table[i].Responses = TokenCount(out.table[i].Category.val)
        /\ SumResponses(out.table) >= Cardinality(RowsWithToken)
        /\ out.nodata <=> (AllTokens \ {<<>>} = {})
        /\ raw = ExampleMedia =>
               out.table = << [Category |-> Str(<<"YouTube">>), Responses |-> 3],
                              [Category |-> Str(<<"Instagram">>), Responses |-> 2],
                              [Category |-> Str(<<"TikTok">>), Responses |-> 1] >>

\* the cells "c;b ;" and "a; b" were counted: b twice, the empty token not at all
C7_Witness ==
    /\ Done({"multivalue_chart"})
    /\ Series = << Str(<<"c", ";", "b", " ", ";">>), Str(<<"a", ";", " ", "b">>) >>
    /\ out.table[1] = [Category |-> Str(<<"b">>), Responses |-> 2]
    /\ SumResponses(out.table) = 4

\* C8: the counts of the single-valued aggregate are the numbers of cells with exactly
\* the category's value; they add up to the number of non-missing values of the
\* column; no category is a missing value, none has the count 0, none comes twice.
C8_Conservation ==
    Done({"single_select_chart", "single_select_pie_chart"}) =>
        /\ SumResponses(out.table) = Cardinality(PresentRows)
        /\ \A i \in 1..Len(out.table) :
               /\ ~IsMissing(out.table[i].Category)
               /\ out.table[i].Responses > 0
               /\ out.table[i].Responses =
                      Cardinality({k \in 1..Len(Series) : Series[k] = out.table[i].Category})
        /\ Categories(out.table) = {Series[k] : k \in PresentRows}
        /\ Len(out.table) = Cardinality(Categories(out.table))
        /\ out.nodata <=> (PresentRows = {})

\* a column with a missing value and one answer given twice has been counted
C8_Witness ==
    /\ Done({"single_select_chart"})
    /\ Len(Series) = 3
    /\ Cardinality(PresentRows) = 2
    /\ Len(out.table) = 1
    /\ out.table[1].Responses = 2

\* the counts the summary is about: those of the column's values, or of its tokens
CountOf(v) ==
    IF out.fn = "summarize_category"
    THEN Cardinality({k \in 1..Len(Series) : Series[k] = v})
    ELSE TokenCount(v.val)

Counted ==
    IF out.fn = "summarize_category"
    THEN {Series[k] : k \in PresentRows}
    ELSE {Str(t) : t \in AllTokens \ {<<>>}}

\* C9: summarize_category and summarize_multivalue return "N/A" exactly when there is
\* nothing to count; otherwise "<category> (<count>)" where the count is that of the
\* category and no category has a higher one, and the category is the first entry of
\* the aggregate table of the same column.
C9_Summary ==
    Done({"summarize_category", "summarize_multivalue"}) =>
        LET chart == IF out.fn = "summarize_category"
                     THEN single_select_chart(Series)
                     ELSE multivalue_chart(Series)
        IN  /\ (out.text = <<"N/A">>) <=> (Counted = {})
            /\ (out.text = <<"N/A">>) <=> chart.nodata
            /\ Counted # {} =>
                   \E v \in Counted :
                       /\ out.text = v.val \o <<" ", "(">> \o Decimal(CountOf(v)) \o <<")">>
                       /\ \A w \in Counted : CountOf(w) <= CountOf(v)
                       /\ chart.table[1].Category = v
                       /\ chart.table[1].Responses = CountOf(v)

\* the example of the specification: the headline is "YouTube (3)", and YouTube is
\* not the answer seen first
C9_Witness ==
    /\ Done({"summarize_multivalue"})
    /\ raw = ExampleMedia
    /\ out.text = <<"YouTube", " ", "(", "3", ")">>

\* ------------------------------------------------------------------ claims on the cache
PageIsCurrent ==
    pc = "page" =>
        /\ canon.status = "ok"
        /\ filtered = apply_filters(canon.df, order, selections, OptionsMap(canon.df))
        /\ out = summarize_category(GetAgeRange(filtered.df))

\* C6: over any sequence of runs, file writes and file deletions, the body of
\* load_data returns a dataset at most once; once a dataset is cached no later step
\* loads again or changes it (the path, the cache key, never changes); and every
\* page shown is computed from the cached dataset and the selection of that run.
C6_LoadOnce ==
    /\ [](loads <= 1 /\ (canon.status = "ok" => loads = 1) /\ PageIsCurrent)
    /\ [][canon.status = "ok" => (canon' = canon /\ loads' = loads)]_vars
    /\ [][(pc = "page" /\ selections' # selections) =>
            filtered' = apply_filters(canon.df, order', selections', OptionsMap(canon.df))]_vars

\* the file has been rewritten since it was loaded, the selection has been changed,
\* and the page still shows the dataset loaded first, filtered by that selection
C6_Witness ==
    /\ pc = "page"
    /\ loads = 1
    /\ exists
    /\ load_table(raw).status = "ok"
    /\ load_table(raw).df # canon.df
    /\ selections # OptionsMap(canon.df)
    /\ Len(filtered.index) = 1

====
